---------------------------- MODULE Spec2Model ----------------------------
(***************************************************************************)
(* The three firmware sketches of jeefy/vtms: the LED flag controller      *)
(* (src/arduino/led.cpp), the voltage sensor (src/arduino/temp.cpp) and    *)
(* the thermocouple probe (src/arduino/thermoprobe.cpp).  Each sketch is   *)
(* one thread of control: setup() once, then loop() forever.  The radio,   *)
(* the broker and the TCP session are the environment.                     *)
(***************************************************************************)
EXTENDS Integers, Sequences, FiniteSets, TLC

(***************************************************************************)
(* Bounds of the model.                                                    *)
(***************************************************************************)
\* Packets the socket may hold unread before the broker has to wait.
MaxInbox == 2
\* Saturation value of the counters of consecutive refusals and of calls.
MaxCount == 3

(***************************************************************************)
(* Characters and C strings.  A string is a sequence of one-character      *)
(* strings; NUL is the zero byte.                                          *)
(***************************************************************************)
NUL == "NUL"

T_black  == <<"l", "e", "m", "o", "n", "s", "/", "f", "l", "a", "g", "/", "b", "l", "a", "c", "k">>
T_red    == <<"l", "e", "m", "o", "n", "s", "/", "f", "l", "a", "g", "/", "r", "e", "d">>
T_pit    == <<"l", "e", "m", "o", "n", "s", "/", "p", "i", "t">>
T_box    == <<"l", "e", "m", "o", "n", "s", "/", "b", "o", "x">>
T_status == <<"e", "m", "q", "x", "/", "e", "s", "p", "3", "2">>
T_wild   == <<"l", "e", "m", "o", "n", "s", "/", "#">>
\* Topics that are none of the four literals of callback().
T_oil    == <<"l", "e", "m", "o", "n", "s", "/", "t", "e", "m", "p", "/", "o", "i", "l", "_", "F">>
T_boxes  == <<"l", "e", "m", "o", "n", "s", "/", "b", "o", "x", "e", "s">>
T_flag   == <<"l", "e", "m", "o", "n", "s", "/", "f", "l", "a", "g">>
T_Pit    == <<"L", "e", "m", "o", "n", "s", "/", "p", "i", "t">>

P_true      == <<"t", "r", "u", "e">>
P_false     == <<"f", "a", "l", "s", "e">>
P_True      == <<"T", "r", "u", "e">>
P_FALSE     == <<"F", "A", "L", "S", "E">>
P_tru       == <<"t", "r", "u">>
P_lead      == <<" ", "t", "r", "u", "e">>
P_trail     == <<"f", "a", "l", "s", "e", " ">>
P_empty     == << >>
P_nul_true  == <<"t", "r", "u", "e", NUL, "x">>
P_nul_false == <<"f", "a", "l", "s", "e", NUL>>

\* A string literal of the source: its characters and the terminating zero.
Lit(s) == s \o <<NUL>>

\* strcmp(a, b) on zero-terminated buffers: 0 when the bytes agree up to and
\* including the first zero byte, nonzero (1 here: the callers test == 0
\* only) at the first byte that differs.
RECURSIVE strcmpFrom(_, _, _)
strcmpFrom(a, b, i) ==
    IF a[i] # b[i] THEN 1
    ELSE IF a[i] = NUL THEN 0
    ELSE strcmpFrom(a, b, i + 1)

\* strncmp(a, b, strlen(b)): 0 as soon as b's characters are a prefix of a.
strcmp_mut_prefix(a, b) ==
    IF \E n \in 0..Len(a) : SubSeq(a, 1, n) \o <<NUL>> = b THEN 0 ELSE 1

strcmp(a, b) == strcmpFrom(a, b, 1)

(***************************************************************************)
(* Pins and levels (led.cpp).                                              *)
(***************************************************************************)
black_flag_gpio == 14
red_flag_gpio   == 27
pit_soon_gpio   == 26
box_box_gpio    == 12
LOW  == 0
HIGH == 1

Pins   == {black_flag_gpio, red_flag_gpio, pit_soon_gpio, box_box_gpio}
Levels == {LOW, HIGH}

\* A write that inverts the pin instead of setting it.
digitalWrite_mut_toggle(p, pin, level) == [p EXCEPT ![pin] = 1 - p[pin]]

\* digitalWrite(pin, level) on the table p of output levels.
digitalWrite(p, pin, level) == [p EXCEPT ![pin] = level]

\* char msg[length + 1]; memcpy(msg, payload, length); msg[length] = '\0';
MsgBuf(payload, length) ==
    [i \in 1..(length + 1) |-> IF i <= length THEN payload[i] ELSE NUL]

\* One  if (strcmp(topic, lit) == 0) { if "true" HIGH; if "false" LOW }  block.
TopicBlock(p, topic, msg, lit, pin) ==
    IF strcmp(topic, Lit(lit)) = 0
    THEN LET p1 == IF strcmp(msg, Lit(P_true)) = 0
                   THEN digitalWrite(p, pin, HIGH) ELSE p
             p2 == IF strcmp(msg, Lit(P_false)) = 0
                   THEN digitalWrite(p1, pin, LOW) ELSE p1
         IN  p2
    ELSE p

\* callback() with the pins of the last two blocks exchanged.
callback_mut_swapped(p, topic, payload, length) ==
    LET msg == MsgBuf(payload, length)
        a == TopicBlock(p, topic, msg, T_black, black_flag_gpio)
        b == TopicBlock(a, topic, msg, T_red, red_flag_gpio)
        c == TopicBlock(b, topic, msg, T_pit, box_box_gpio)
        d == TopicBlock(c, topic, msg, T_box, pit_soon_gpio)
    IN  d

\* callback(topic, payload, length) of led.cpp: the pin table it leaves.
\* topic is the zero-terminated buffer the bus client passes.
callback(p, topic, payload, length) ==
    LET msg == MsgBuf(payload, length)
        a == TopicBlock(p, topic, msg, T_black, black_flag_gpio)
        b == TopicBlock(a, topic, msg, T_red, red_flag_gpio)
        c == TopicBlock(b, topic, msg, T_pit, pit_soon_gpio)
        d == TopicBlock(c, topic, msg, T_box, box_box_gpio)
    IN  d

(***************************************************************************)
(* Inbound messages the broker may deliver.                                *)
(***************************************************************************)
\* A message is named by its topic and payload as written; Bytes gives the
\* bytes on the wire.  <NUL> in a name stands for one zero byte.
KnownTopics   == {"lemons/flag/black", "lemons/flag/red", "lemons/pit", "lemons/box"}
UnknownTopics == {"emqx/esp32", "lemons/temp/oil_F", "lemons/boxes",
                  "lemons/flag", "Lemons/pit"}
Topics        == KnownTopics \cup UnknownTopics
Payloads      == {"true", "false", "True", "FALSE", " true", "false ", "tru",
                  "", "true<NUL>x", "false<NUL>"}
Bytes(name) ==
    CASE name = "lemons/flag/black" -> T_black
      [] name = "lemons/flag/red"   -> T_red
      [] name = "lemons/pit"        -> T_pit
      [] name = "lemons/box"        -> T_box
      [] name = "emqx/esp32"        -> T_status
      [] name = "lemons/#"          -> T_wild
      [] name = "lemons/temp/oil_F" -> T_oil
      [] name = "lemons/boxes"      -> T_boxes
      [] name = "lemons/flag"       -> T_flag
      [] name = "Lemons/pit"        -> T_Pit
      [] name = "true"              -> P_true
      [] name = "false"             -> P_false
      [] name = "True"              -> P_True
      [] name = "FALSE"             -> P_FALSE
      [] name = "tru"               -> P_tru
      [] name = " true"             -> P_lead
      [] name = "false "            -> P_trail
      [] name = ""                  -> P_empty
      [] name = "true<NUL>x"        -> P_nul_true
      [] name = "false<NUL>"        -> P_nul_false
Messages      == [topic : Topics, payload : Payloads]
NoMsg         == [topic |-> "none", payload |-> "none"]


(***************************************************************************)
(* Per-sketch constants.                                                   *)
(***************************************************************************)
Sketches == {"led", "temp", "thermoprobe"}
Sensors  == {"temp", "thermoprobe"}

\* delay() inside the while (WiFi.status() != WL_CONNECTED) loop.
JoinDelay(s)  == IF s = "thermoprobe" THEN 1000 ELSE 500
\* delay() after a refused client.connect().
RetryDelay(s) == IF s = "thermoprobe" THEN 3000 ELSE 2000
\* delay() at the end of a sensor sketch's loop().
LoopDelay == 500
\* A setup() without the subscription to lemons/#.
SubscribeList_mut_status_only(s) == <<"emqx/esp32">>

\* The subscribe calls at the end of setup(), in order.
SubscribeList(s) == IF s = "led" THEN <<"emqx/esp32", "lemons/#">>
                    ELSE <<"emqx/esp32">>
\* The topic a sensor sketch publishes its reading to.
SensorTopic(s) == IF s = "temp" THEN "lemons/temp/transmission"
                  ELSE "lemons/temp/oil_F"

\* #define REF_VOLTAGE 3.3, as the fraction 33 / 10.
REF_VOLTAGE_NUM == 33
REF_VOLTAGE_DEN == 10
\* #define ADC_RESOLUTION 4096.0
ADC_RESOLUTION == 4096
\* Bits of the significand of a float, the hidden one included.
FLT_MANT_DIG == 24
\* The range of long temp_C, temp_F.
LONG_MAX == 2147483647
LONG_MIN == (0 - LONG_MAX) - 1
\* The thermocouple amplifier's answer when no probe is attached: the
\* read functions return NAN.
NoProbe == -1

\* What the physical input can deliver.  temp: analogRead(A0), 12 bits.
\* thermoprobe: the amplifier's count of quarter degrees Celsius, or NoProbe.
Readings(s) == IF s = "temp" THEN 0 .. (ADC_RESOLUTION - 1)
               ELSE {NoProbe, 0, 100, 400, 4095}
\* The readings followed through setup(), the retry loop and the session's
\* drops: for temp the ends of the range, its middle, and the readings whose
\* voltage is halfway between two thousandths.
Samples(s) == IF s = "temp" THEN {0, 1, 512, 1536, 2048, 2560, 3584, 4095}
              ELSE Readings(s)
\* Values a conversion of NAN to long can leave (the conversion is
\* undefined): any long; the extremes and the values around zero.
LongSamples == {LONG_MIN, -1, 0, LONG_MAX}

\* n / d rounded to the nearest integer, a tie to the even one.
RoundHalfEven(n, d) ==
    LET q == n \div d
        r == n % d
    IN  IF 2 * r > d \/ (2 * r = d /\ q % 2 = 1) THEN q + 1 ELSE q

\* n / d written as (n1 / d1) / 2^s with n1 / d1 in [2^23, 2^24): d loses
\* its factors of two, then n is doubled.
RECURSIVE Normalise(_, _, _)
Normalise(n, d, s) ==
    IF d % 2 = 0 THEN Normalise(n, d \div 2, s + 1)
    ELSE IF n < d * 2^(FLT_MANT_DIG - 1) THEN Normalise(2 * n, d, s + 1)
    ELSE [n |-> n, d |-> d, s |-> s]

\* The float nearest to n / d (n >= 0, n / d not halfway between two
\* floats): the value m / 2^s.
ToFloat(n, d) ==
    IF n = 0 THEN [m |-> 0, s |-> 0]
    ELSE LET x == Normalise(n, d, 0)
         IN  [m |-> RoundHalfEven(x.n, x.d), s |-> x.s]

\* float voltage = ((float)sensorValue * REF_VOLTAGE) / ADC_RESOLUTION;
\* The product and the quotient are computed in double and the result is
\* rounded to float.  sensorValue * 33 / 40960 is never within 2^-26 of the
\* midpoint of two floats (scaled to a 24-bit significand its fraction is a
\* multiple of 1/5), so the error of the double arithmetic, below 2^-51 of
\* the value, does not change which float is nearest.
Voltage(sensorValue) ==
    ToFloat(sensorValue * REF_VOLTAGE_NUM, REF_VOLTAGE_DEN * ADC_RESOLUTION)

\* A conversion to three decimals that cuts the value off.
Thousandths_mut_truncate(val) ==
    IF val.m = 0 THEN {0} ELSE {((val.m * 125) \div 2^(val.s - 4)) \div 2}

\* dtostrf(val, .., 3, ..): val in thousandths, rounded to the nearest.  A
\* float exactly halfway between two thousandths goes to either: a dtostrf
\* built on printf rounds it to the even one, one that adds half a
\* thousandth and cuts off rounds it up.
Thousandths(val) ==
    IF val.m = 0 THEN {0}
    ELSE LET num  == val.m * 125
             half == 2^(val.s - 4)
             x    == num \div half
             q    == x \div 2
         IN  IF x % 2 = 0 THEN {q}
             ELSE IF num % half # 0 THEN {q + 1}
             ELSE {q, q + 1}

Digit(d) == <<"0", "1", "2", "3", "4", "5", "6", "7", "8", "9">>[d + 1]
\* The decimal digits of n >= 0.
RECURSIVE Digits(_)
Digits(n) == IF n < 10 THEN <<Digit(n)>>
             ELSE Append(Digits(n \div 10), Digit(n % 10))
RECURSIVE ZeroPad(_, _)
ZeroPad(str, width) == IF Len(str) >= width THEN str
                       ELSE ZeroPad(<<"0">> \o str, width)
RECURSIVE SpacePad(_, _)
SpacePad(str, width) == IF Len(str) >= width THEN str
                        ELSE SpacePad(<<" ">> \o str, width)

\* A dtostrf that pads to the size of the buffer instead of the width.
dtostrf_mut_wide(scaled, width, prec) ==
    SpacePad(Digits(scaled \div 10^prec) \o <<".">>
               \o ZeroPad(Digits(scaled % 10^prec), prec), width + 4)

\* dtostrf(.., width, prec, ..) of a value of scaled / 10^prec >= 0: the
\* integer part, the point, prec decimals, padded on the left to width.
dtostrf(scaled, width, prec) ==
    SpacePad(Digits(scaled \div 10^prec) \o <<".">>
               \o ZeroPad(Digits(scaled % 10^prec), prec), width)

\* ltoa(value, .., 10): a minus sign for a negative value, then the digits
\* of its magnitude.
ltoa(value) ==
    IF value >= 0 THEN Digits(value)
    ELSE LET last == (10 - (value % 10)) % 10
             rest == (0 - (value + last)) \div 10
         IN  <<"-">> \o (IF rest = 0 THEN << >> ELSE Digits(rest))
                    \o <<Digit(last)>>

\* char voltageStr[10] (temp), char buf[16] (thermoprobe).
BufSize(s) == IF s = "temp" THEN 10 ELSE 16

\* temp_C = thermocouple.readCelsius(): a quarter of the count, converted
\* to long (cut off); NAN converts to anything.
ReadCelsius(count) ==
    IF count = NoProbe THEN LongSamples ELSE {count \div 4}
\* temp_F = thermocouple.readFahrenheit(): Celsius * 9 / 5 + 32, converted
\* to long.
ReadFahrenheit(count) ==
    IF count = NoProbe THEN LongSamples ELSE {(count * 9) \div 20 + 32}

\* client.state() codes of the bus client library.
MQTT_CONNECTED       == 0
MQTT_DISCONNECTED    == -1
MQTT_CONNECTION_LOST == -3
\* Codes a refused connect leaves: timeout, connect failed, bad protocol,
\* bad client id, unavailable, bad credentials, unauthorized.
FailCodes == {-4, -2, 1, 2, 3, 4, 5}

Saturate(n) == IF n < MaxCount THEN n + 1 ELSE MaxCount

\* The levels of a topic name or filter: its parts between the "/".
RECURSIVE TopicLevels(_)
TopicLevels(str) ==
    IF \A i \in 1 .. Len(str) : str[i] # "/" THEN <<str>>
    ELSE LET k == CHOOSE i \in 1 .. Len(str) :
                      str[i] = "/" /\ \A j \in 1 .. (i - 1) : str[j] # "/"
         IN  <<SubSeq(str, 1, k - 1)>>
                 \o TopicLevels(SubSeq(str, k + 1, Len(str)))

\* The broker's matching of a topic's levels against a filter's: "#" stands
\* for any number of remaining levels, none included, "+" for one level.
RECURSIVE LevelsMatch(_, _)
LevelsMatch(f, t) ==
    IF f = << >> THEN t = << >>
    ELSE IF Head(f) = <<"#">> THEN TRUE
    ELSE IF t = << >> THEN FALSE
    ELSE IF Head(f) = <<"+">> \/ Head(f) = Head(t)
         THEN LevelsMatch(Tail(f), Tail(t))
    ELSE FALSE

\* The broker sends a message of this topic to a client that has subscribed
\* with this filter (client.subscribe("lemons/#")).
TopicMatches(filter, topic) ==
    LevelsMatch(TopicLevels(filter), TopicLevels(topic))

\* What WiFi.macAddress() can return: the station address of the board, six
\* octets in hexadecimal separated by colons.
MacAddresses == {"24:6F:28:A1:B2:C3", "24:6F:28:A1:B2:C4"}
\* Addresses of other boards on the same bus.
OtherMacAddresses == {"34:6F:28:A1:B2:C3", "24:6F:28:A1:C3:B2",
                      "24:6F:28:A1:B2:03"}

\* A client identity without the board's address.
ClientId_mut_no_address(address) == "esp32-client-"

\* String client_id = "esp32-client-"; client_id += String(WiFi.macAddress());
ClientId(address) == "esp32-client-" \o address

(***************************************************************************)
(* State.                                                                  *)
(***************************************************************************)
VARIABLES
    sketch,         \* which of the three programs runs
    mac,            \* what WiFi.macAddress() returns on this board
    pc,             \* position of the one thread of control
    mode,           \* led: pin -> "UNSET" | "OUTPUT"      (pinMode)
    pins,           \* led: pin -> output level             (digitalWrite)
    wifiBegun,      \* WiFi.begin() has been called
    wifiStatus,     \* what WiFi.status() returns
    connected,      \* what client.connected() returns
    state,          \* what client.state() returns
    callbackSet,    \* client.setCallback(callback) has been called
    delayMs,        \* argument of the delay() call in progress, 0 if none
    failures,       \* consecutive refused connects (saturating)
    succeeded,      \* some client.connect() has returned true
    announceCalls,  \* client.publish(topic, "Hi, ...") calls (saturating)
    subs,           \* the filters of the client.subscribe() calls, in order
    clientId,       \* client_id of the latest client.connect() call, "" if none
    rxPending,      \* packets received by the socket, not yet read
    lastMsg,        \* the message of the latest callback invocation
    repeated,       \* that message is exactly "true"/"false" on a known
                    \*   topic and was also the one of the invocation before
    serviced,       \* client.loop() was called in the latest loop() pass
    passParity,     \* number of completed loop() passes, modulo 2
    sample,         \* sensors: sensorValue (temp), temp_F (thermoprobe)
    temp_C,         \* thermoprobe: temp_C
    buf,            \* sensors: voltageStr (temp), buf (thermoprobe)
    reads,          \* sensors: reads of the device in this loop() pass
    sinceRead,      \* sensors: ms of delay() since the latest read of the
                    \*   device, -1 before the first read
    attempts,       \* sensors: reading publish calls in this loop() pass
    sent            \* sensors: the reading publish of this loop() pass

vars == <<sketch, mac, clientId, pc, mode, pins, wifiBegun, wifiStatus,
          connected, state,
          callbackSet, delayMs, failures, succeeded, announceCalls, subs,
          rxPending, lastMsg, repeated, serviced, passParity, sample,
          temp_C, buf, reads, sinceRead, attempts, sent>>

\* Variables of the bus session and the radio.
netVars  == <<wifiBegun, wifiStatus, connected, state, rxPending>>
\* Variables of the led controller's outputs.
pinVars  == <<mode, pins, lastMsg, repeated>>
\* Records of what setup() has done.
histVars == <<callbackSet, failures, succeeded, announceCalls, subs, clientId>>
\* Variables of the sensor sketches' loop().
loopVars == <<serviced, passParity, sample, temp_C, buf, reads, sinceRead,
              attempts, sent>>
\* Variables only the sensor sketches' loop() writes.
sensorVars == <<sample, temp_C, buf, reads, sinceRead, attempts, sent>>

NoSent == [topic |-> "", payload |-> << >>, ok |-> FALSE]

\* The pin callback() drives for a topic, and the level a payload names.
PinOf(t) == CASE t = "lemons/flag/black" -> black_flag_gpio
              [] t = "lemons/flag/red"   -> red_flag_gpio
              [] t = "lemons/pit"        -> pit_soon_gpio
              [] t = "lemons/box"        -> box_box_gpio
LevelOf(pl) == IF pl = "true" THEN HIGH ELSE LOW
IsValid(m) == m.topic \in KnownTopics /\ m.payload \in {"true", "false"}

Init ==
    /\ sketch \in Sketches
    /\ mac \in MacAddresses
    /\ clientId = ""
    /\ pc = "start"
    /\ mode = [g \in Pins |-> "UNSET"]
    /\ pins \in (IF sketch = "led" THEN [Pins -> Levels]
                 ELSE {[g \in Pins |-> LOW]})
    /\ wifiBegun = FALSE
    /\ wifiStatus = "WL_IDLE_STATUS"
    /\ connected = FALSE
    /\ state = MQTT_DISCONNECTED
    /\ callbackSet = FALSE
    /\ delayMs = 0
    /\ failures = 0
    /\ succeeded = FALSE
    /\ announceCalls = 0
    /\ subs = << >>
    /\ rxPending = 0
    /\ lastMsg = NoMsg
    /\ repeated = FALSE
    /\ serviced = FALSE
    /\ passParity = 0
    /\ sample = 0
    /\ temp_C = 0
    /\ buf = << >>
    /\ reads = 0
    /\ sinceRead = -1
    /\ attempts = 0
    /\ sent = NoSent

(***************************************************************************)
(* setup()                                                                 *)
(***************************************************************************)
\* setup() that also drives every pin LOW.
SetupBegin_mut_write_low ==
    /\ pc = "start"
    /\ mode' = IF sketch = "led" THEN [g \in Pins |-> "OUTPUT"] ELSE mode
    /\ pins' = IF sketch = "led" THEN [g \in Pins |-> LOW] ELSE pins
    /\ wifiBegun' = TRUE
    /\ pc' = "wifi_check"
    /\ UNCHANGED <<sketch, mac, wifiStatus, connected, state, rxPending, lastMsg,
                   repeated, delayMs>>
    /\ UNCHANGED histVars
    /\ UNCHANGED loopVars

\* pinMode(.., OUTPUT) x 4 (led only); Serial.begin(); WiFi.begin(ssid, password).
SetupBegin ==
    /\ pc = "start"
    /\ mode' = IF sketch = "led" THEN [g \in Pins |-> "OUTPUT"] ELSE mode
    /\ wifiBegun' = TRUE
    /\ pc' = "wifi_check"
    /\ UNCHANGED <<sketch, mac, pins, wifiStatus, connected, state, rxPending,
                   lastMsg, repeated, delayMs>>
    /\ UNCHANGED histVars
    /\ UNCHANGED loopVars

\* A join loop that goes on without the radio being associated.
WifiCheck_mut_no_wait ==
    /\ pc = "wifi_check"
    /\ callbackSet' = TRUE
    /\ pc' = "mqtt_check"
    /\ delayMs' = delayMs
    /\ UNCHANGED <<sketch, mac, failures, succeeded, announceCalls, subs,
                   clientId>>
    /\ UNCHANGED netVars
    /\ UNCHANGED pinVars
    /\ UNCHANGED loopVars

\* while (WiFi.status() != WL_CONNECTED): the test; on exit setServer and
\* setCallback; otherwise the call of delay().
WifiCheck ==
    /\ pc = "wifi_check"
    /\ IF wifiStatus = "WL_CONNECTED"
       THEN /\ callbackSet' = TRUE
            /\ pc' = "mqtt_check"
            /\ delayMs' = delayMs
       ELSE /\ pc' = "wifi_delay"
            /\ delayMs' = JoinDelay(sketch)
            /\ callbackSet' = callbackSet
    /\ UNCHANGED <<sketch, mac, failures, succeeded, announceCalls, subs,
                   clientId>>
    /\ UNCHANGED netVars
    /\ UNCHANGED pinVars
    /\ UNCHANGED loopVars

\* delay(500) / delay(1000) returns; Serial.println("Connecting to WiFi..").
WifiDelay ==
    /\ pc = "wifi_delay"
    /\ pc' = "wifi_check"
    /\ delayMs' = 0
    /\ UNCHANGED <<sketch, mac>>
    /\ UNCHANGED netVars
    /\ UNCHANGED pinVars
    /\ UNCHANGED histVars
    /\ UNCHANGED loopVars

\* while (!client.connected()): the test.
MqttCheck ==
    /\ pc = "mqtt_check"
    /\ pc' = IF connected THEN "announce" ELSE "mqtt_connect"
    /\ UNCHANGED <<sketch, mac, delayMs>>
    /\ UNCHANGED netVars
    /\ UNCHANGED pinVars
    /\ UNCHANGED histVars
    /\ UNCHANGED loopVars

\* client.connect(client_id, user, password) returns true.
MqttConnectOk ==
    /\ pc = "mqtt_connect"
    /\ clientId' = ClientId(mac)
    /\ connected' = TRUE
    /\ state' = MQTT_CONNECTED
    /\ succeeded' = TRUE
    /\ failures' = 0
    /\ pc' = "mqtt_check"
    /\ UNCHANGED <<sketch, mac, wifiBegun, wifiStatus, rxPending, delayMs,
                   callbackSet, announceCalls, subs>>
    /\ UNCHANGED pinVars
    /\ UNCHANGED loopVars

\* A retry loop that gives up at the second refusal in a row.
MqttConnectRefused_mut_give_up(code) ==
    /\ pc = "mqtt_connect"
    /\ clientId' = ClientId(mac)
    /\ connected' = FALSE
    /\ state' = code
    /\ failures' = Saturate(failures)
    /\ IF failures >= 1
       THEN pc' = "announce" /\ delayMs' = delayMs
       ELSE pc' = "mqtt_delay" /\ delayMs' = RetryDelay(sketch)
    /\ UNCHANGED <<sketch, mac, wifiBegun, wifiStatus, rxPending, callbackSet,
                   succeeded, announceCalls, subs>>
    /\ UNCHANGED pinVars
    /\ UNCHANGED loopVars

\* client.connect(...) returns false: the state code is printed and
\* delay(2000) / delay(3000) is called.
MqttConnectRefused(code) ==
    /\ pc = "mqtt_connect"
    /\ clientId' = ClientId(mac)
    /\ connected' = FALSE
    /\ state' = code
    /\ failures' = Saturate(failures)
    /\ pc' = "mqtt_delay"
    /\ delayMs' = RetryDelay(sketch)
    /\ UNCHANGED <<sketch, mac, wifiBegun, wifiStatus, rxPending, callbackSet,
                   succeeded, announceCalls, subs>>
    /\ UNCHANGED pinVars
    /\ UNCHANGED loopVars

\* The delay after a refused connect returns.
MqttDelay ==
    /\ pc = "mqtt_delay"
    /\ pc' = "mqtt_check"
    /\ delayMs' = 0
    /\ UNCHANGED <<sketch, mac>>
    /\ UNCHANGED netVars
    /\ UNCHANGED pinVars
    /\ UNCHANGED histVars
    /\ UNCHANGED loopVars

\* client.publish(topic, "Hi, I'm VTMS ...").
Announce ==
    /\ pc = "announce"
    /\ announceCalls' = Saturate(announceCalls)
    /\ pc' = "subscribe"
    /\ UNCHANGED <<sketch, mac, delayMs, callbackSet, failures, succeeded, subs,
                   clientId>>
    /\ UNCHANGED netVars
    /\ UNCHANGED pinVars
    /\ UNCHANGED loopVars

\* A subscribe call that services the socket: a packet that waits there is
\* read and handed to callback() before the call returns.
Subscribe_mut_services ==
    /\ pc = "subscribe"
    /\ Len(subs) < Len(SubscribeList(sketch))
    /\ subs' = Append(subs, SubscribeList(sketch)[Len(subs) + 1])
    /\ pc' = IF Len(subs') = Len(SubscribeList(sketch)) THEN "loop" ELSE "subscribe"
    /\ IF sketch = "led" /\ connected /\ rxPending > 0
       THEN /\ rxPending' = rxPending - 1
            /\ \E m \in Messages :
                  /\ lastMsg' = m
                  /\ pins' = callback(pins, Lit(Bytes(m.topic)),
                                      Bytes(m.payload), Len(Bytes(m.payload)))
            /\ repeated' = FALSE
            /\ UNCHANGED <<mode, wifiBegun, wifiStatus, connected, state>>
       ELSE UNCHANGED netVars /\ UNCHANGED pinVars
    /\ UNCHANGED <<sketch, mac, delayMs, callbackSet, failures, succeeded,
                   announceCalls, clientId>>
    /\ UNCHANGED loopVars

\* client.subscribe(topic); and on the led controller then
\* client.subscribe("lemons/#"): one call per step.  setup() returns after
\* the last one.
Subscribe ==
    /\ pc = "subscribe"
    /\ Len(subs) < Len(SubscribeList(sketch))
    /\ subs' = Append(subs, SubscribeList(sketch)[Len(subs) + 1])
    /\ pc' = IF Len(subs') = Len(SubscribeList(sketch)) THEN "loop" ELSE "subscribe"
    /\ UNCHANGED <<sketch, mac, delayMs, callbackSet, failures, succeeded,
                   announceCalls, clientId>>
    /\ UNCHANGED netVars
    /\ UNCHANGED pinVars
    /\ UNCHANGED loopVars


(***************************************************************************)
(* loop()                                                                  *)
(***************************************************************************)
\* led.cpp loop(): client.loop() finds a packet in the socket, reads it and
\* calls callback(topic, payload, length) before it returns.
LedLoopDeliver(m) ==
    /\ sketch = "led"
    /\ pc = "loop"
    /\ connected
    /\ rxPending > 0
    /\ callbackSet
    /\ rxPending' = rxPending - 1
    /\ lastMsg' = m
    /\ repeated' = (lastMsg = m /\ IsValid(m))
    /\ pins' = callback(pins, Lit(Bytes(m.topic)), Bytes(m.payload),
                        Len(Bytes(m.payload)))
    /\ serviced' = TRUE
    /\ passParity' = 1 - passParity
    /\ UNCHANGED <<sketch, mac, pc, mode, wifiBegun, wifiStatus, connected,
                   state, delayMs>>
    /\ UNCHANGED sensorVars
    /\ UNCHANGED histVars

\* led.cpp loop(): client.loop() with no session or nothing to read.
LedLoopIdle ==
    /\ sketch = "led"
    /\ pc = "loop"
    /\ ~connected \/ rxPending = 0
    /\ serviced' = TRUE
    /\ passParity' = 1 - passParity
    /\ UNCHANGED <<sketch, mac, pc, delayMs>>
    /\ UNCHANGED sensorVars
    /\ UNCHANGED netVars
    /\ UNCHANGED pinVars
    /\ UNCHANGED histVars

\* thermoprobe.cpp loop(): temp_C = thermocouple.readCelsius(), the first of
\* the two reads of the amplifier.
ThermoReadCelsius(count) ==
    /\ sketch = "thermoprobe"
    /\ pc = "loop"
    /\ temp_C' \in ReadCelsius(count)
    /\ reads' = reads + 1
    /\ sinceRead' = 0
    /\ serviced' = FALSE
    /\ pc' = "loop_read"
    /\ UNCHANGED <<sketch, mac, delayMs, passParity, sample, buf, attempts,
                   sent>>
    /\ UNCHANGED netVars
    /\ UNCHANGED pinVars
    /\ UNCHANGED histVars

\* Sensor loop(): the read that is published and its formatting.  temp.cpp:
\* analogRead(A0), the voltage, dtostrf(voltage, 6, 3, voltageStr).
\* thermoprobe.cpp: temp_F = thermocouple.readFahrenheit(), ltoa(temp_F,
\* buf, 10).
SensorRead(r) ==
    /\ \/ sketch = "temp" /\ pc = "loop"
       \/ sketch = "thermoprobe" /\ pc = "loop_read"
    /\ IF sketch = "temp"
       THEN /\ sample' = r
            /\ \E t \in Thousandths(Voltage(r)) : buf' = dtostrf(t, 6, 3)
       ELSE \E v \in ReadFahrenheit(r) : sample' = v /\ buf' = ltoa(v)
    /\ reads' = reads + 1
    /\ sinceRead' = 0
    /\ serviced' = FALSE
    /\ pc' = "loop_publish"
    /\ UNCHANGED <<sketch, mac, delayMs, passParity, temp_C, attempts, sent>>
    /\ UNCHANGED netVars
    /\ UNCHANGED pinVars
    /\ UNCHANGED histVars

\* A publish that is skipped while there is no session.
SensorPublish_mut_skip ==
    /\ sketch \in Sensors
    /\ pc = "loop_publish"
    /\ sent' = IF connected
               THEN [topic |-> SensorTopic(sketch), payload |-> buf, ok |-> TRUE]
               ELSE sent
    /\ attempts' = IF connected THEN attempts + 1 ELSE attempts
    /\ pc' = "loop_delay"
    /\ delayMs' = LoopDelay
    /\ UNCHANGED <<sketch, mac, serviced, passParity, sample, temp_C, buf,
                   reads, sinceRead>>
    /\ UNCHANGED netVars
    /\ UNCHANGED pinVars
    /\ UNCHANGED histVars

\* Sensor loop(): client.publish(<topic>, <reading>), then the call of
\* delay(500).  publish returns false without a session.
SensorPublish ==
    /\ sketch \in Sensors
    /\ pc = "loop_publish"
    /\ sent' = [topic |-> SensorTopic(sketch), payload |-> buf,
                ok |-> connected]
    /\ attempts' = attempts + 1
    /\ pc' = "loop_delay"
    /\ delayMs' = LoopDelay
    /\ UNCHANGED <<sketch, mac, serviced, passParity, sample, temp_C, buf,
                   reads, sinceRead>>
    /\ UNCHANGED netVars
    /\ UNCHANGED pinVars
    /\ UNCHANGED histVars

\* Sensor loop(): delay(500) returns and loop() with it; the counts of the
\* pass start again.  sensorValue and voltageStr are locals of temp.cpp's
\* loop() and end with it; temp_C, temp_F and buf of thermoprobe.cpp are
\* globals and stay.
SensorDelay ==
    /\ sketch \in Sensors
    /\ pc = "loop_delay"
    /\ pc' = "loop"
    /\ sinceRead' = sinceRead + delayMs
    /\ delayMs' = 0
    /\ passParity' = 1 - passParity
    /\ reads' = 0
    /\ attempts' = 0
    /\ sent' = NoSent
    /\ sample' = IF sketch = "temp" THEN 0 ELSE sample
    /\ buf' = IF sketch = "temp" THEN << >> ELSE buf
    /\ UNCHANGED <<sketch, mac, serviced, temp_C>>
    /\ UNCHANGED netVars
    /\ UNCHANGED pinVars
    /\ UNCHANGED histVars

(***************************************************************************)
(* The environment: the radio, the broker, the TCP session.                *)
(***************************************************************************)
\* The radio associates: WiFi.status() turns WL_CONNECTED.
WifiAssociate ==
    /\ wifiBegun
    /\ wifiStatus # "WL_CONNECTED"
    /\ wifiStatus' = "WL_CONNECTED"
    /\ UNCHANGED <<sketch, mac, pc, delayMs, wifiBegun, connected, state, rxPending>>
    /\ UNCHANGED pinVars
    /\ UNCHANGED histVars
    /\ UNCHANGED loopVars

\* The broker sends a message of a subscribed topic: it waits in the socket
\* until the bus client reads it.
BrokerSend ==
    /\ connected
    /\ subs # << >>
    /\ rxPending < MaxInbox
    /\ rxPending' = rxPending + 1
    /\ UNCHANGED <<sketch, mac, pc, delayMs, wifiBegun, wifiStatus, connected, state>>
    /\ UNCHANGED pinVars
    /\ UNCHANGED histVars
    /\ UNCHANGED loopVars

\* The bus session drops: client.connected() turns false, what the socket
\* held is lost.
SessionDrop ==
    /\ connected
    /\ connected' = FALSE
    /\ state' = MQTT_CONNECTION_LOST
    /\ rxPending' = 0
    /\ UNCHANGED <<sketch, mac, pc, delayMs, wifiBegun, wifiStatus>>
    /\ UNCHANGED pinVars
    /\ UNCHANGED histVars
    /\ UNCHANGED loopVars

(***************************************************************************)
(* The specifications.                                                     *)
(***************************************************************************)
\* A step of setup().
SetupStep ==
    \/ SetupBegin
    \/ WifiCheck
    \/ WifiDelay
    \/ MqttCheck
    \/ MqttConnectOk
    \/ \E code \in FailCodes : MqttConnectRefused(code)
    \/ MqttDelay
    \/ Announce
    \/ Subscribe

\* A step of loop().
LoopStep ==
    \/ \E m \in Messages : LedLoopDeliver(m)
    \/ LedLoopIdle
    \/ /\ sketch = "thermoprobe" /\ pc = "loop"
       /\ \E count \in Samples(sketch) : ThermoReadCelsius(count)
    \/ /\ sketch \in Sensors /\ pc \in {"loop", "loop_read"}
       /\ \E r \in Samples(sketch) : SensorRead(r)
    \/ SensorPublish
    \/ SensorDelay

\* A step of the sketch.
Program == SetupStep \/ LoopStep

\* A step of the environment.
Environment == WifiAssociate \/ BrokerSend \/ SessionDrop

Next == Program \/ Environment

Spec == Init /\ [][Next]_vars

\* The sensor sketches from the entry of loop() on, a session being open,
\* over every reading of the input.
ReadingInit ==
    /\ sketch \in Sensors
    /\ mac \in MacAddresses
    /\ clientId = ClientId(mac)
    /\ pc = "loop"
    /\ mode = [g \in Pins |-> "UNSET"]
    /\ pins = [g \in Pins |-> LOW]
    /\ wifiBegun = TRUE
    /\ wifiStatus = "WL_CONNECTED"
    /\ connected = TRUE
    /\ state = MQTT_CONNECTED
    /\ callbackSet = TRUE
    /\ delayMs = 0
    /\ failures = 0
    /\ succeeded = TRUE
    /\ announceCalls = 1
    /\ subs = SubscribeList(sketch)
    /\ rxPending = 0
    /\ lastMsg = NoMsg
    /\ repeated = FALSE
    /\ serviced = FALSE
    /\ passParity = 0
    /\ sample = 0
    /\ temp_C = 0
    /\ buf = << >>
    /\ reads = 0
    /\ sinceRead = -1
    /\ attempts = 0
    /\ sent = NoSent

ReadingNext ==
    \/ /\ sketch = "thermoprobe" /\ pc = "loop"
       /\ \E count \in Readings(sketch) : ThermoReadCelsius(count)
    \/ /\ sketch \in Sensors /\ pc \in {"loop", "loop_read"}
       /\ \E r \in Readings(sketch) : SensorRead(r)
    \/ SensorPublish
    \/ SensorDelay
    \/ SessionDrop

ReadingSpec == ReadingInit /\ [][ReadingNext]_vars

\* A pass of led.cpp's loop() that dispatches a message, described by its
\* guard and by what it may leave.  Among the steps of Next these are the
\* steps of LedLoopDeliver, and it is enabled exactly when LedLoopDeliver is
\* (callback() is total), so fairness of one is fairness of the other.
LedLoopDelivers ==
    /\ sketch = "led"
    /\ pc = "loop"
    /\ connected
    /\ rxPending > 0
    /\ callbackSet
    /\ rxPending' = rxPending - 1
    /\ lastMsg' \in Messages
    /\ repeated' \in BOOLEAN
    /\ pins' \in [Pins -> Levels]
    /\ serviced' = TRUE
    /\ passParity' = 1 - passParity
    /\ UNCHANGED <<sketch, mac, pc, mode, wifiBegun, wifiStatus, connected,
                   state, delayMs>>
    /\ UNCHANGED sensorVars
    /\ UNCHANGED histVars

\* The steps of the sketch, for the fairness condition.
ProgramStep ==
    \/ SetupStep
    \/ LedLoopDelivers
    \/ LedLoopIdle
    \/ /\ sketch = "thermoprobe" /\ pc = "loop"
       /\ \E count \in Samples(sketch) : ThermoReadCelsius(count)
    \/ /\ sketch \in Sensors /\ pc \in {"loop", "loop_read"}
       /\ \E r \in Samples(sketch) : SensorRead(r)
    \/ SensorPublish
    \/ SensorDelay

\* The processor runs the sketch: a step of the program that is possible is
\* taken.  Nothing is assumed of the radio or the broker.
FairSpec == Spec /\ WF_vars(ProgramStep)


(***************************************************************************)
(* Properties of the led controller's callback.                            *)
(***************************************************************************)
LoopPcs == {"loop", "loop_read", "loop_publish", "loop_delay"}
InLoop  == pc \in LoopPcs

\* This step is client.loop() invoking callback(); lastMsg' is its message.
Delivery ==
    /\ sketch = "led"
    /\ pc = "loop"
    /\ connected /\ connected'
    /\ rxPending' = rxPending - 1

Msg(t, pl) == [topic |-> t, payload |-> pl]

\* C1: one callback invocation on a known topic with payload exactly "true"
\* or "false" leaves that topic's pin HIGH for "true" and LOW for "false",
\* whatever the levels were, and the other three pins as they were.
C1_KnownPairSetsPin ==
    [][(Delivery /\ IsValid(lastMsg'))
          => pins' = [pins EXCEPT ![PinOf(lastMsg'.topic)] =
                                      LevelOf(lastMsg'.payload)]]_vars

\* "false" on lemons/box has been dispatched: box_box is LOW while another
\* pin is HIGH.
C1_Witness ==
    /\ lastMsg = Msg("lemons/box", "false")
    /\ pins[box_box_gpio] = LOW
    /\ pins[pit_soon_gpio] = HIGH

\* C2: on a known topic, a payload whose bytes are not exactly "true" or
\* "false" changes no pin level.
C2_OtherPayloadChangesNothing ==
    [][(Delivery /\ lastMsg'.topic \in KnownTopics
                 /\ Bytes(lastMsg'.payload) \notin {P_true, P_false})
          => pins' = pins]_vars

\* C3: a topic that is none of the four literals changes no pin level,
\* whatever the payload.
C3_UnknownTopicChangesNothing ==
    [][(Delivery /\ lastMsg'.topic \notin KnownTopics) => pins' = pins]_vars

\* "true" on lemons/boxes (lemons/box is a proper prefix of it) has been
\* dispatched and box_box is LOW.
C3_Witness ==
    /\ lastMsg = Msg("lemons/boxes", "true")
    /\ pins[box_box_gpio] = LOW

\* C4: after any sequence of deliveries each pin has the level named by the
\* latest message on its topic whose payload is exactly "true" or "false",
\* or its initial level if there was none.  Step by step: a delivery of such
\* a message sets its pin to the named level, and every other step, the
\* delivery of any other message included, leaves every pin as it was.
C4_PinsFollowLatestValid ==
    [][pins' = IF Delivery /\ IsValid(lastMsg')
               THEN [pins EXCEPT ![PinOf(lastMsg'.topic)] =
                                   LevelOf(lastMsg'.payload)]
               ELSE pins]_vars

\* C5: a valid message delivered twice in a row leaves the pins as the first
\* delivery left them, and a valid message naming the level its pin already
\* has changes no pin.
C5_Idempotent ==
    [][(Delivery /\ IsValid(lastMsg'))
          => /\ (lastMsg = lastMsg' => pins' = pins)
             /\ (pins[PinOf(lastMsg'.topic)] = LevelOf(lastMsg'.payload)
                   => pins' = pins)]_vars

\* "true" on lemons/flag/red has been dispatched twice in a row.
C5_Witness ==
    /\ lastMsg = Msg("lemons/flag/red", "true")
    /\ repeated
    /\ pins[red_flag_gpio] = HIGH

\* C6: a step that changes a pin level is a callback invocation on a message
\* of one of the four topics; setup() and a loop() pass without a message
\* change none.
C6_OnlyCallbackWrites ==
    [][pins' # pins => (Delivery /\ lastMsg'.topic \in KnownTopics)]_vars

\* setup() has run, loop() has run without a message, and the pins still
\* have the mixed levels the hardware started with.
C6_Witness ==
    /\ sketch = "led"
    /\ pc = "loop"
    /\ serviced
    /\ lastMsg = NoMsg
    /\ mode[black_flag_gpio] = "OUTPUT"
    /\ pins[black_flag_gpio] = HIGH
    /\ pins[box_box_gpio] = LOW


(***************************************************************************)
(* Properties of the main loop and of the connection lifecycle.            *)
(***************************************************************************)
\* This step ends one pass of loop().
PassEnds == passParity' # passParity

\* C7: every pass of loop(), in each of the three sketches, calls the bus
\* client's service routine.
C7_EveryPassServices ==
    [][PassEnds => serviced']_vars

\* C8: when the session drops while the sketch is in its main loop, the
\* sketch makes a new connect attempt.
C8_DropLeadsToReconnect ==
    (InLoop /\ ~connected) ~> (pc = "mqtt_connect")

JoinPcs == {"start", "wifi_check", "wifi_delay"}

\* C9: no connect attempt before the radio is associated; the announcement
\* is published once, after a successful connect and before any subscribe;
\* the subscribes are issued once, in the sketch's order; the main loop
\* starts after them and no later step changes the subscriptions.
C9_SetupOrder ==
    /\ [](pc \notin JoinPcs => wifiStatus = "WL_CONNECTED")
    /\ []((succeeded \/ failures > 0) => wifiStatus = "WL_CONNECTED")
    /\ [](announceCalls <= 1 /\ (announceCalls = 1 => succeeded))
    /\ [][announceCalls' # announceCalls => (subs = << >> /\ succeeded)]_vars
    /\ []((announceCalls > 0 \/ subs # << >>) => wifiStatus = "WL_CONNECTED")
    /\ [](subs # << >> => announceCalls = 1)
    /\ [](/\ Len(subs) <= Len(SubscribeList(sketch))
          /\ subs = SubSeq(SubscribeList(sketch), 1, Len(subs)))
    /\ [](InLoop <=> subs = SubscribeList(sketch))
    /\ [][InLoop => (InLoop' /\ subs' = subs
                             /\ announceCalls' = announceCalls)]_vars

\* The led controller is in its main loop with both subscribes issued after
\* one announcement, and has had a connect refused on the way.
C9_Witness ==
    /\ sketch = "led"
    /\ pc = "loop"
    /\ subs = <<"emqx/esp32", "lemons/#">>
    /\ announceCalls = 1
    /\ wifiStatus = "WL_CONNECTED"

\* This step is a call of client.connect().
Attempt == pc = "mqtt_connect" /\ pc' # "mqtt_connect"

\* The parts of C10 that do not depend on what follows an accepted attempt:
\* a refused attempt, with any state code, is followed by one delay of the
\* sketch's length and then by another attempt, and the announcement is not
\* reached while no attempt has succeeded.
RetryForever ==
    /\ [][(Attempt /\ ~connected')
            => (pc' = "mqtt_delay" /\ delayMs' = RetryDelay(sketch)
                                   /\ state' \in FailCodes)]_vars
    /\ [][(pc = "mqtt_delay" /\ pc' # pc)
            => (pc' = "mqtt_check" /\ delayMs' = 0 /\ ~connected')]_vars
    /\ [][(pc = "mqtt_check" /\ ~connected /\ pc' # pc)
            => pc' = "mqtt_connect"]_vars
    /\ (pc = "mqtt_delay") ~> (pc = "mqtt_connect")
    /\ []((pc \in {"announce", "subscribe"} \/ InLoop) => succeeded)

\* C10 as stated: RetryForever, and once the broker has accepted an attempt
\* the sketch makes no further attempt and reaches its main loop.
C10_Original ==
    /\ RetryForever
    /\ [][succeeded => ~Attempt]_vars
    /\ succeeded ~> InLoop

\* C10 as amended: RetryForever, and when the session an accepted attempt
\* opened is still up at the next test of the retry loop, the sketch leaves
\* the retry loop without a further attempt, reaches its main loop and
\* makes no attempt from then on.
C10_Retry ==
    /\ RetryForever
    /\ [][(pc = "mqtt_check" /\ connected /\ pc' # pc) => pc' = "announce"]_vars
    /\ [][Attempt => \/ (connected' /\ succeeded' /\ pc' = "mqtt_check")
                     \/ ~connected']_vars
    /\ [][(pc \in {"announce", "subscribe"} \/ InLoop)
            => pc' \notin {"mqtt_check", "mqtt_connect", "mqtt_delay"}]_vars
    /\ (pc = "announce") ~> InLoop

\* A sketch whose session dropped after an accepted attempt has since been
\* refused MaxCount times in a row and is about to try again.
C10_Witness ==
    /\ succeeded
    /\ failures = MaxCount
    /\ pc = "mqtt_connect"
    /\ state \in FailCodes


(***************************************************************************)
(* Properties of the client identity.                                      *)
(***************************************************************************)
\* C11: boards with different addresses of the same format have different
\* client identities ("esp32-client-" followed by the address), and every
\* connect attempt of one run, the first and every retry, uses the same
\* identity.
C11_IdentityUniqueAndStable ==
    /\ [](clientId # ""
            => \A other \in (MacAddresses \cup OtherMacAddresses) \ {mac} :
                   ClientId(other) # clientId)
    /\ [][Attempt => clientId' # ""]_vars
    /\ [][(Attempt /\ clientId # "") => clientId' = clientId]_vars
    /\ [][~Attempt => clientId' = clientId]_vars

\* A sketch about to retry after an accepted and MaxCount refused attempts,
\* all made under the identity of its board.
C11_Witness ==
    /\ pc = "mqtt_connect"
    /\ succeeded
    /\ failures = MaxCount
    /\ mac = "24:6F:28:A1:B2:C4"
    /\ clientId = "esp32-client-24:6F:28:A1:B2:C4"


(***************************************************************************)
(* Properties of the published readings.                                   *)
(***************************************************************************)
DigitChars == {Digit(d) : d \in 0 .. 9}
DigitVal(c) == CHOOSE d \in 0 .. 9 : Digit(d) = c
\* The number the digits of str spell, its point and spaces left out.
RECURSIVE NumberOf(_)
NumberOf(str) ==
    IF str = << >> THEN 0
    ELSE LET front == SubSeq(str, 1, Len(str) - 1)
             c     == str[Len(str)]
         IN  IF c \in DigitChars THEN 10 * NumberOf(front) + DigitVal(c)
             ELSE NumberOf(front)
\* str is spaces, then digits, a point and exactly three digits.
ThreeDecimals(str) ==
    /\ Len(str) >= 5
    /\ str[Len(str) - 3] = "."
    /\ \A i \in (Len(str) - 2) .. Len(str) : str[i] \in DigitChars
    /\ str[Len(str) - 4] \in DigitChars
    /\ \A i \in 1 .. (Len(str) - 5) : str[i] \in DigitChars \cup {" "}
    /\ \A i \in 1 .. (Len(str) - 5) :
           str[i] \in DigitChars => str[i + 1] \in DigitChars
\* n / d rounded to the nearest integer, a tie upwards.
RoundHalfUp(n, d) == (2 * n + d) \div (2 * d)
\* The reading in millivolts, times ADC_RESOLUTION.
ScaledMillivolts(r) == r * REF_VOLTAGE_NUM * (1000 \div REF_VOLTAGE_DEN)
\* temp.cpp has published the reading of this pass.
TempSent == sketch = "temp" /\ sent # NoSent

\* What C12 says of the value besides its rounding: three decimals, 1.650
\* for 2048 and 0.000 for 0, below 3.300, and not below any value published
\* for the next lower reading.
ReadingShape ==
    TempSent =>
        LET mv == NumberOf(sent.payload)
        IN  /\ sent.payload = buf
            /\ ThreeDecimals(sent.payload)
            /\ sample = 2048 => mv = 1650
            /\ sample = 0 => mv = 0
            /\ mv < (1000 * REF_VOLTAGE_NUM) \div REF_VOLTAGE_DEN
            /\ sample > 0
                 => \A t \in Thousandths(Voltage(sample - 1)) : t <= mv

\* C12 as stated: for every raw reading r in 0..4095 temp.cpp publishes
\* round(r * 3300 / 4096) millivolts with exactly three decimals (a tie
\* rounded up or to even), 1.650 for 2048 and 0.000 for 0, monotonically
\* non-decreasing in r and below 3.300.
C12_Original ==
    /\ ReadingShape
    /\ TempSent
         => NumberOf(sent.payload)
              \in {RoundHalfUp(ScaledMillivolts(sample), ADC_RESOLUTION),
                   RoundHalfEven(ScaledMillivolts(sample), ADC_RESOLUTION)}

\* C12 as amended: the published value is a three-decimal value nearest to
\* r * 3.3 / 4096, at most half a millivolt from it; where r * 3300 / 4096
\* is halfway between two millivolts it may be the lower or the upper one.
C12_Nearest ==
    /\ ReadingShape
    /\ TempSent
         => LET a == ADC_RESOLUTION * NumberOf(sent.payload)
                b == ScaledMillivolts(sample)
            IN  2 * (IF a > b THEN a - b ELSE b - a) <= ADC_RESOLUTION

\* temp.cpp has read 1536 (1237.5 mV) and published " 1.237" over an open
\* session.
C12_Witness ==
    /\ sketch = "temp"
    /\ sample = 1536
    /\ sent.payload = <<" ", "1", ".", "2", "3", "7">>
    /\ sent.ok


(***************************************************************************)
(* Properties of the sensor sketches' loop().                              *)
(***************************************************************************)
\* "For the MAX6675 to update, you must delay AT LEAST 250ms between reads!"
MinReadInterval == 250
\* This step reads the sensing device.
DeviceRead == reads' > reads
\* This step is a reading publish call.
PublishCall == sketch \in Sensors /\ attempts' > attempts

\* C13: in the sensor sketches any two consecutive reads of the sensing
\* device, in one pass of loop() or across passes, are separated by a delay
\* of at least 250 ms, and each pass reads exactly one scalar before it
\* publishes.
C13_ReadsSpacedAndSingle ==
    /\ [][DeviceRead => (sinceRead = -1 \/ sinceRead >= MinReadInterval)]_vars
    /\ [][PublishCall => reads = 1]_vars

\* C14: every pass of a sensor sketch's loop() makes exactly one publish
\* attempt, to the sketch's fixed topic, with or without a session and
\* whatever became of the publish before; a failed publish is not retried,
\* changes nothing of the program's state, and the pass goes on to the same
\* delay and the next pass as after a successful one.
C14_OnePublishPerPass ==
    /\ [][(sketch \in Sensors /\ PassEnds) => attempts = 1]_vars
    /\ [][(sketch \in Sensors /\ pc = "loop_publish" /\ pc' # pc)
            => /\ attempts' = attempts + 1
               /\ sent' = [topic |-> SensorTopic(sketch), payload |-> buf,
                           ok |-> connected]
               /\ pc' = "loop_delay"
               /\ delayMs' = LoopDelay
               /\ UNCHANGED <<sample, temp_C, buf, reads, connected, state,
                              passParity>>]_vars
    /\ [][(sketch \in Sensors /\ pc = "loop_delay" /\ pc' # pc)
            => (pc' = "loop" /\ PassEnds /\ attempts' = 0)]_vars
    /\ [][(sketch \in Sensors /\ pc \in {"loop", "loop_read"} /\ pc' # pc)
            => (DeviceRead /\ attempts' = 0
                           /\ pc' \in {"loop_read", "loop_publish"})]_vars

\* A sensor sketch in its second pass: the session has dropped, the publish
\* of this pass has failed, and the pass is in its delay.
C14_Witness ==
    /\ sketch \in Sensors
    /\ pc = "loop_delay"
    /\ passParity = 1
    /\ ~connected
    /\ attempts = 1
    /\ sent.topic = SensorTopic(sketch)
    /\ ~sent.ok


(***************************************************************************)
(* Properties of the callback's invocation and of the subscriptions.       *)
(***************************************************************************)
\* This step takes a packet out of the socket while the session stays up:
\* the bus client has read it and called callback().
CallbackInvoked == sketch = "led" /\ connected' /\ rxPending' < rxPending

\* C15: in the led controller callback() is invoked only from within the
\* client.loop() call that loop() makes: not during setup() (the join loop,
\* a connect attempt, the announcement, the subscribes), not before both
\* subscribes are issued; one invocation takes one message and has
\* returned, with the pass of loop(), before the next begins.
C15_CallbackOnlyFromLoop ==
    /\ [][CallbackInvoked
            => /\ pc = "loop" /\ pc' = "loop"
               /\ callbackSet
               /\ subs = SubscribeList(sketch)
               /\ rxPending' = rxPending - 1
               /\ PassEnds
               /\ serviced']_vars
    /\ [][(sketch = "led" /\ ~InLoop)
            => (lastMsg' = lastMsg /\ repeated' = repeated /\ pins' = pins)]_vars
    /\ []((sketch = "led" /\ ~InLoop) => lastMsg = NoMsg)
    /\ [][(sketch = "led" /\ lastMsg' # lastMsg) => CallbackInvoked]_vars

\* The led controller has had two messages waiting, callback() has handled
\* the first and returned, the second still waits.
C15_Witness ==
    /\ sketch = "led"
    /\ pc = "loop"
    /\ connected
    /\ lastMsg # NoMsg
    /\ serviced
    /\ rxPending = MaxInbox - 1
    /\ rxPending > 0


(***************************************************************************)
(* Properties of the formatting buffers.                                   *)
(***************************************************************************)
\* C16: the formatted reading fits its buffer, the terminating zero
\* included: for every raw reading 0..4095 the string of dtostrf(voltage, 6,
\* 3, ..) has at most 9 characters (voltageStr[10]), and for every long
\* temp_F the string of ltoa has at most 15 (buf[16]).
C16_ReadingFitsBuffer ==
    /\ sketch \in Sensors => Len(buf) + 1 <= BufSize(sketch)
    /\ (sketch = "temp" /\ buf # << >>)
         => (Len(buf) = 6 /\ ThreeDecimals(buf))
    /\ (sketch = "thermoprobe" /\ buf # << >>)
         => /\ Len(buf) <= 11
            /\ (buf[1] = "-") = (sample < 0)
            /\ \A i \in 2 .. Len(buf) : buf[i] \in DigitChars
            /\ buf[Len(buf)] = Digit(IF sample < 0 THEN (10 - (sample % 10)) % 10
                                     ELSE sample % 10)

\* thermoprobe.cpp has formatted the longest value a long can hold: eleven
\* characters and the terminating zero in buf[16].
C16_Witness ==
    /\ sketch = "thermoprobe"
    /\ pc = "loop_publish"
    /\ sample = LONG_MIN
    /\ buf = <<"-", "2", "1", "4", "7", "4", "8", "3", "6", "4", "8">>

\* A filter of a subscribe call made so far matches the topic t.
Covered(t) ==
    \E i \in 1 .. Len(subs) : TopicMatches(Bytes(subs[i]), Bytes(t))
\* The topic literals of callback() that strcmp finds equal to topic t.
EqualLiterals(t) ==
    {k \in KnownTopics : strcmp(Lit(Bytes(t)), Lit(Bytes(k))) = 0}

\* C17: every topic callback() acts on is covered by the subscriptions of
\* setup(): each of the four topics matches the filter lemons/# and a filter
\* subscribed when loop() starts, the subscriptions staying as they are from
\* then on; and one delivered message changes at most one pin, the four
\* topic comparisons being mutually exclusive.
C17_TopicsCoveredAndExclusive ==
    /\ [][(sketch = "led" /\ ~InLoop /\ InLoop')
            => \A t \in KnownTopics :
                  /\ TopicMatches(Bytes("lemons/#"), Bytes(t))
                  /\ Covered(t)']_vars
    /\ [][(sketch = "led" /\ InLoop) => (InLoop' /\ subs' = subs)]_vars
    /\ [][(Delivery /\ pins' # pins) => Covered(lastMsg'.topic)]_vars
    /\ [](lastMsg # NoMsg => Cardinality(EqualLiterals(lastMsg.topic)) <= 1)
    /\ [][Delivery => Cardinality({g \in Pins : pins'[g] # pins[g]}) <= 1]_vars

\* "true" on lemons/flag/black was delivered to the led controller under
\* its two subscriptions and has raised black_flag alone: the pins that were
\* LOW at the start are still LOW.
C17_Witness ==
    /\ sketch = "led"
    /\ subs = <<"emqx/esp32", "lemons/#">>
    /\ lastMsg = Msg("lemons/flag/black", "true")
    /\ pins = [g \in Pins |-> IF g = black_flag_gpio THEN HIGH ELSE LOW]

=============================================================================
